---- MODULE Spec2Model ----
(***************************************************************************)
(* Model of src/ggformula_WordHunter.py: suffix search over a master word  *)
(* list, the tracer-sheet PDF loop, the parallel translation helper, the   *)
(* batch meanings lookup and the meanings table with its exports.          *)
(*                                                                         *)
(* A Python str is a sequence of one-character strings where the code      *)
(* looks inside it (words, suffixes, raw tokens), and an atomic string     *)
(* where the code only passes it on (definitions, translations).           *)
(***************************************************************************)
EXTENDS Integers, Sequences, FiniteSets, TLC

VARIABLES
    \* ---- suffix search (find_matches and its call) ----
    words,          \* the list handed to find_matches
    suffix,         \* st.text_input(...).strip()
    before_mode,    \* st.selectbox: "any" | "exact" | "at_least" | "at_most"
    before_n,       \* st.number_input, >= 0
    max_results,    \* st.number_input, >= 0 (0 = no limit)
    matches,        \* the list find_matches returned
    search_pc,      \* "input" | "done" | "idle"
    \* ---- master word list (build_master_wordlist) ----
    wordnet_lemmas,     \* wordnet.all_lemma_names()
    nltk_corpus,        \* nltk_words.words()
    have_nltk,          \* HAVE_NLTK_WORDS, and the corpus can be read
    file_custom,        \* data/custom_words.txt
    file_large,         \* data/large_words.txt
    include_wordnet,    \* st.checkbox "Use WordNet wordlist"
    include_nltk_corpus,\* st.checkbox "Also include nltk.corpus.words"
    master_words,       \* the list build_master_wordlist returned
    master_pc,          \* "input" | "done" | "idle"
    \* ---- tracer sheet (create_tracer_pdf_buffer) ----
    words_for_tracer,   \* the stripped non-blank lines of the text area
    clones_per_word,    \* st.slider "Copies per word"
    pdf,                \* the canvas create_tracer_pdf_buffer saved
    pdf_pc,             \* "input" | "done" | "no_words" | "idle"
    \* ---- translate_list_parallel ----
    texts,              \* the list to translate
    use_fallback,       \* which translator the call uses
    futs,               \* futs[i]: the future submitted for texts[i]
    results,            \* the result list, None until a future is collected
    fut_i,              \* i = futs[fut] of the last future as_completed yielded
    cache_primary,      \* st.cache_data of google_translate_ta
    cache_fallback,     \* st.cache_data of google_translate_ta_fallback
    tr_pc,              \* "call" | "running" | "returned" | "crashed" | "idle"
    \* ---- batch meanings lookup and the rows built from it ----
    use_wordsapi,       \* st.checkbox "Add WordsAPI (RapidAPI)"
    use_owlbot,         \* st.checkbox "Add Owlbot"
    use_dictapi,        \* st.checkbox "Add DictionaryAPI.dev (free)"
    wordsapi_key,       \* "" or a key
    wordsapi_host,      \* "" or a host
    owlbot_token,       \* "" or a token
    lookup_futs,        \* lookup_futs[k]: the future of task(matches[k])
    lookup_results,     \* results: (word, info) in the order of completion
    rows,               \* the rows built from results
    lookup_pc,          \* "lookup" | "done" | "crashed" | "no_results" | "idle"
    \* ---- the meanings table: translation, display, downloads ----
    df,                 \* the DataFrame of the rows
    do_translate,       \* st.checkbox "Translate English definitions to Tamil"
    use_public_fallback,\* st.checkbox "... use Google public fallback"
    english_defs,       \* the English Definition column as a list
    ta_primary,         \* ta as the primary call returned it
    need_idx,           \* the indices sent to the fallback
    fallback_texts,     \* the texts sent to the fallback
    fb,                 \* what the fallback call returned
    shown,              \* the table st.dataframe displayed
    excel,              \* the sheet "Meanings" of meanings.xlsx
    json_records,       \* the records of meanings.json
    table_pc            \* "translate" | "show" | "export" | "done" | "idle"

searchVars == <<words, suffix, before_mode, before_n, max_results, matches, search_pc>>
masterVars == <<wordnet_lemmas, nltk_corpus, have_nltk, file_custom, file_large,
                include_wordnet, include_nltk_corpus, master_words, master_pc>>

pdfVars == <<words_for_tracer, clones_per_word, pdf, pdf_pc>>

trVars == <<texts, use_fallback, futs, results, fut_i, cache_primary, cache_fallback, tr_pc>>

lookupVars == <<use_wordsapi, use_owlbot, use_dictapi, wordsapi_key, wordsapi_host,
                owlbot_token, lookup_futs, lookup_results, rows, lookup_pc>>

tableVars == <<df, do_translate, use_public_fallback, english_defs, ta_primary, need_idx,
               fallback_texts, fb, shown, excel, json_records, table_pc>>

vars == <<searchVars, masterVars, pdfVars, trVars, lookupVars, tableVars>>

\* everything but one group
notSearch == <<masterVars, pdfVars, trVars, lookupVars, tableVars>>
notMaster == <<searchVars, pdfVars, trVars, lookupVars, tableVars>>
notPdf == <<searchVars, masterVars, trVars, lookupVars, tableVars>>
notTr == <<searchVars, masterVars, pdfVars, lookupVars, tableVars>>
notLookup == <<searchVars, masterVars, pdfVars, trVars, tableVars>>
notTable == <<searchVars, masterVars, pdfVars, trVars, lookupVars>>

(***************************************************************************)
(* Characters and strings                                                  *)
(***************************************************************************)

\* str.lower() on one character
LowerChar(c) ==
    CASE c = "A" -> "a"
      [] c = "B" -> "b"
      [] c = "C" -> "c"
      [] OTHER -> c

\* str.lower()
Lower(s) == [i \in 1..Len(s) |-> LowerChar(s[i])]

\* code point of a character, as Python compares strings
Ord(c) ==
    CASE c = " " -> 32
      [] c = "'" -> 39
      [] c = "-" -> 45
      [] c = "." -> 46
      [] c = "A" -> 65
      [] c = "B" -> 66
      [] c = "C" -> 67
      [] c = "_" -> 95
      [] c = "a" -> 97
      [] c = "b" -> 98
      [] c = "c" -> 99
      [] OTHER -> 0

\* str.endswith
EndsWith(w, s) ==
    /\ Len(s) <= Len(w)
    /\ \A i \in 1..Len(s) : w[Len(w) - Len(s) + i] = s[i]

\* Python's  x < y  on two strings
RECURSIVE StrLess(_, _)
StrLess(x, y) ==
    IF x = <<>> THEN y # <<>>
    ELSE IF y = <<>> THEN FALSE
    ELSE IF Head(x) = Head(y) THEN StrLess(Tail(x), Tail(y))
    ELSE Ord(Head(x)) < Ord(Head(y))

\* the sort key  lambda x: (len(x), x.lower())  compared as tuples
KeyLess(x, y) ==
    \/ Len(x) < Len(y)
    \/ Len(x) = Len(y) /\ StrLess(Lower(x), Lower(y))

\* one insertion of a stable sort: x goes after every element whose key is
\* not greater than its own
RECURSIVE InsertByKey(_, _)
InsertByKey(sorted, x) ==
    IF sorted = <<>> THEN <<x>>
    ELSE IF KeyLess(x, Head(sorted)) THEN <<x>> \o sorted
    ELSE <<Head(sorted)>> \o InsertByKey(Tail(sorted), x)

\* list.sort(key=...) / sorted(list, key=...): stable
RECURSIVE SortByKey(_)
SortByKey(l) ==
    IF l = <<>> THEN <<>>
    ELSE InsertByKey(SortByKey(SubSeq(l, 1, Len(l) - 1)), l[Len(l)])

Range(l) == {l[i] : i \in 1..Len(l)}

(***************************************************************************)
(* Suffix filtering                                                        *)
(***************************************************************************)

\* faulty variant: the suffix test without the guard on the empty suffix
match_suffix_no_guard(word, suff, mode, n) ==
    IF ~EndsWith(Lower(word), Lower(suff)) THEN FALSE
    ELSE IF mode = "any" THEN TRUE
    ELSE IF mode = "exact" THEN Len(word) - Len(suff) = n
    ELSE IF mode = "at_least" THEN Len(word) - Len(suff) >= n
    ELSE IF mode = "at_most" THEN Len(word) - Len(suff) <= n
    ELSE TRUE

match_suffix(word, suff, mode, n) ==
    IF suff = <<>> THEN FALSE
    ELSE IF ~EndsWith(Lower(word), Lower(suff)) THEN FALSE
    ELSE IF mode = "any" THEN TRUE
    ELSE IF mode = "exact" THEN Len(word) - Len(suff) = n
    ELSE IF mode = "at_least" THEN Len(word) - Len(suff) >= n
    ELSE IF mode = "at_most" THEN Len(word) - Len(suff) <= n
    ELSE TRUE

\* Python's None is the empty tuple, an int k is <<k>>
None == <<>>
Truthy(opt) == opt # None /\ opt[1] # 0

\* faulty variant: the limit cuts the unsorted match list
find_matches_cut_unsorted(wl, suff, mode, n, limit) ==
    LET Match(w) == match_suffix(w, suff, mode, n)
        res == SelectSeq(wl, Match)
    IN  IF Truthy(limit)
        THEN SortByKey(SubSeq(res, 1, IF limit[1] < Len(res) THEN limit[1] ELSE Len(res)))
        ELSE SortByKey(res)

find_matches(wl, suff, mode, n, limit) ==
    LET Match(w) == match_suffix(w, suff, mode, n)
        res == SortByKey(SelectSeq(wl, Match))
    IN  IF Truthy(limit)
        THEN SubSeq(res, 1, IF limit[1] < Len(res) THEN limit[1] ELSE Len(res))
        ELSE res

\* ---- inputs of the search ----
MaxWords == 3        \* longest word list searched
MaxBeforeN == 2      \* largest "letters before suffix" number entered
MaxLimit == 2        \* largest "max results" number entered

SearchVocabulary ==
    { <<"b">>, <<"a", "b">>, <<"A", "b">>, <<"a", "B">>, <<"b", "a", "b">>, <<"a">> }
SearchSuffixes ==
    { <<>>, <<"b">>, <<"B">>, <<"a", "b">>, <<"a">> }
BeforeModes == {"any", "exact", "at_least", "at_most"}

WordLists == UNION {[1..k -> SearchVocabulary] : k \in 0..MaxWords}

InitSearch ==
    /\ words \in WordLists
    /\ suffix \in SearchSuffixes
    /\ before_mode \in BeforeModes
    /\ before_n \in 0..MaxBeforeN
    /\ max_results \in 0..MaxLimit
    /\ matches = <<>>
    /\ search_pc = "input"

IdleSearch ==
    /\ words = <<>>
    /\ suffix = <<>>
    /\ before_mode = "any"
    /\ before_n = 0
    /\ max_results = 0
    /\ matches = <<>>
    /\ search_pc = "idle"

\* "Apply Filter": max_results=int(max_results) if max_results else None
RunSearch ==
    /\ search_pc = "input"
    /\ matches' = find_matches(words, suffix, before_mode, before_n,
                               IF max_results # 0 THEN <<max_results>> ELSE None)
    /\ search_pc' = "done"
    /\ UNCHANGED <<words, suffix, before_mode, before_n, max_results>>
    /\ UNCHANGED notSearch

NextSearch == RunSearch

(***************************************************************************)
(* Claims about the suffix search                                          *)
(***************************************************************************)

\* k characters of w precede an ending equal to s
EndsWithAfter(w, s, k) == k <= Len(w) /\ SubSeq(w, k + 1, Len(w)) = s

Count(l, x) == Cardinality({i \in 1..Len(l) : l[i] = x})

\* the list is one build_master_wordlist can return: ordered by key, no repeats
IsMasterList(l) ==
    /\ \A i, j \in 1..Len(l) : i < j => ~KeyLess(l[j], l[i])
    /\ \A i, j \in 1..Len(l) : i # j => l[i] # l[j]

SearchedNoLimit ==
    search_pc = "done" /\ max_results = 0 /\ before_mode \in {"any", "exact"}

\* C1 as stated: with no result limit, a word of the list is among the
\* matches iff it ends with the suffix as written (the empty suffix and a
\* suffix of another letter case included) and, in "exact" mode, exactly
\* before_n characters precede the suffix.
C1_Original ==
    (SearchedNoLimit /\ IsMasterList(words)) =>
        \A i \in 1..Len(words) :
            (words[i] \in Range(matches)) <=>
                \E k \in 0..Len(words[i]) :
                    /\ EndsWithAfter(words[i], suffix, k)
                    /\ before_mode = "exact" => k = before_n

\* C1 amended: with no result limit, a word of the list is among the
\* matches iff the suffix is not empty, the lower-cased word ends with the
\* lower-cased suffix and, in "exact" mode, exactly before_n characters
\* precede the suffix.
C1_SuffixMatch ==
    SearchedNoLimit =>
        \A i \in 1..Len(words) :
            (words[i] \in Range(matches)) <=>
                /\ suffix # <<>>
                /\ \E k \in 0..Len(words[i]) :
                    /\ EndsWithAfter(Lower(words[i]), Lower(suffix), k)
                    /\ before_mode = "exact" => k = before_n

\* an exact-count search whose suffix differs in case from the ending of a
\* word it returns, and which leaves another word of the list out
C1_Witness ==
    /\ SearchedNoLimit
    /\ before_mode = "exact"
    /\ \E w \in Range(matches) : ~EndsWith(w, suffix)
    /\ \E i \in 1..Len(words) : words[i] \notin Range(matches)

Matching(l) ==
    {i \in 1..Len(l) : match_suffix(l[i], suffix, before_mode, before_n)}

Min(a, b) == IF a < b THEN a ELSE b

\* C8: the matches are ordered by (length, lower-cased word); with
\* max_results = 0 every matching word is returned; with max_results = k > 0
\* the result is the first min(k, number of matches) elements of the sorted
\* match list, hence a prefix of the unlimited result for the same inputs.
C8_SortedAndLimited ==
    search_pc = "done" =>
        LET m == Cardinality(Matching(words))
            unlimited == find_matches(words, suffix, before_mode, before_n, None)
        IN  /\ \A i, j \in 1..Len(matches) : i < j => ~KeyLess(matches[j], matches[i])
            /\ \A w \in Range(matches) :
                   /\ match_suffix(w, suffix, before_mode, before_n)
                   /\ Count(matches, w) <= Count(words, w)
            /\ max_results = 0 =>
                   /\ Len(matches) = m
                   /\ \A i \in Matching(words) :
                          Count(matches, words[i]) = Count(words, words[i])
            /\ max_results > 0 =>
                   /\ Len(matches) = Min(max_results, m)
                   /\ matches = SubSeq(unlimited, 1, Len(matches))
                   /\ \A i \in Matching(words) : \A j \in 1..Len(matches) :
                          Count(matches, words[i]) < Count(words, words[i])
                              => ~KeyLess(words[i], matches[j])

\* a limited search over an unordered list with more matches than the limit
C8_Witness ==
    /\ search_pc = "done"
    /\ max_results = 2
    /\ Len(matches) = 2
    /\ Cardinality(Matching(words)) = 3
    /\ KeyLess(words[3], words[1])

(***************************************************************************)
(* Word list sources and build_master_wordlist                             *)
(***************************************************************************)

IsSpace(c) == c = " "

\* re: \w
IsWordChar(c) == c \in {"a", "b", "c", "A", "B", "C", "_"}

\* re.search(r"[^\w'-]", wl)
HasWeirdChar(s) == \E i \in 1..Len(s) : ~(IsWordChar(s[i]) \/ s[i] = "'" \/ s[i] = "-")

RECURSIVE LStrip(_)
LStrip(s) == IF s # <<>> /\ IsSpace(Head(s)) THEN LStrip(Tail(s)) ELSE s

RECURSIVE RStrip(_)
RStrip(s) ==
    IF s # <<>> /\ IsSpace(s[Len(s)]) THEN RStrip(SubSeq(s, 1, Len(s) - 1)) ELSE s

\* str.strip()
Strip(s) == RStrip(LStrip(s))

get_wordnet_words == wordnet_lemmas

get_nltk_words == IF have_nltk THEN {Lower(w) : w \in nltk_corpus} ELSE {}

\* the stripped non-blank lines of one file; nothing when it is absent or
\* reading it raises
FileWords(f) ==
    IF f.exists /\ f.readable
    THEN {Strip(x) : x \in {l \in f.lines : Strip(l) # <<>>}}
    ELSE {}

load_custom_files == FileWords(file_custom) \cup FileWords(file_large)

\* sorted(set, key=...): the set is iterated in an arbitrary order and the
\* sort is stable, so entries with equal keys come out in any order
RECURSIVE SortedOrders(_)
SortedOrders(S) ==
    IF S = {} THEN {<<>>}
    ELSE UNION { {<<x>> \o r : r \in SortedOrders(S \ {x})} :
                 x \in {m \in S : \A y \in S : ~KeyLess(y, m)} }

\* faulty variant: the filter on characters outside \w ' - is missing
CleanedKeepWeird(ws) == {Strip(w) : w \in {x \in ws : Strip(x) # <<>>}}

\* the loop over words: strip, skip empties, skip weird tokens
Cleaned(ws) ==
    {Strip(w) : w \in {x \in ws : Strip(x) # <<>> /\ ~HasWeirdChar(Strip(x))}}

\* the lists build_master_wordlist can return
build_master_wordlist(inc_wordnet, inc_nltk) ==
    SortedOrders(Cleaned(
        (IF inc_wordnet THEN get_wordnet_words ELSE {})
        \cup (IF inc_nltk THEN get_nltk_words ELSE {})
        \cup load_custom_files))

\* ---- what the sources can hold ----
WordNetUniverse == { <<"a", "b">>, <<"A", "b">>, <<"a", "_", "b">>, <<"a", ".", "b">> }
NltkUniverse == { <<"A", "b">>, <<"b", "-", "a">> }
CustomLines == { <<" ", "a", "b", " ">>, <<" ", " ">>, <<"a", " ", "b">> }
LargeLines == { <<"c", "'", "a">>, <<>> }

FileStates(lines) ==
    {[exists |-> FALSE, readable |-> FALSE, lines |-> {}]}
    \cup {[exists |-> TRUE, readable |-> FALSE, lines |-> {}]}
    \cup {[exists |-> TRUE, readable |-> TRUE, lines |-> ls] : ls \in SUBSET lines}

InitMaster ==
    /\ wordnet_lemmas \in SUBSET WordNetUniverse
    /\ nltk_corpus \in SUBSET NltkUniverse
    /\ have_nltk \in BOOLEAN
    /\ file_custom \in FileStates(CustomLines)
    /\ file_large \in FileStates(LargeLines)
    /\ include_wordnet \in BOOLEAN
    /\ include_nltk_corpus \in BOOLEAN
    /\ master_words = <<>>
    /\ master_pc = "input"

IdleMaster ==
    /\ wordnet_lemmas = {}
    /\ nltk_corpus = {}
    /\ have_nltk = FALSE
    /\ file_custom = [exists |-> FALSE, readable |-> FALSE, lines |-> {}]
    /\ file_large = [exists |-> FALSE, readable |-> FALSE, lines |-> {}]
    /\ include_wordnet = FALSE
    /\ include_nltk_corpus = FALSE
    /\ master_words = <<>>
    /\ master_pc = "idle"

\* master_words = build_master_wordlist(include_wordnet, include_nltk_corpus)
BuildMaster ==
    /\ master_pc = "input"
    /\ master_words' \in build_master_wordlist(include_wordnet, include_nltk_corpus)
    /\ master_pc' = "done"
    /\ UNCHANGED <<wordnet_lemmas, nltk_corpus, have_nltk, file_custom, file_large,
                   include_wordnet, include_nltk_corpus>>
    /\ UNCHANGED notMaster

NextMaster == BuildMaster

\* a well-formed entry: not empty, no whitespace at either end, only word
\* characters, apostrophes and hyphens
IsCleanWord(w) ==
    /\ w # <<>>
    /\ ~IsSpace(w[1]) /\ ~IsSpace(w[Len(w)])
    /\ \A i \in 1..Len(w) : w[i] \in {"a", "b", "c", "A", "B", "C", "_", "'", "-"}

MasterIsCleanSet ==
    /\ \A i, j \in 1..Len(master_words) : i # j => master_words[i] # master_words[j]
    /\ \A i \in 1..Len(master_words) : IsCleanWord(master_words[i])

ReadableLines(f) == IF f.exists /\ f.readable THEN f.lines ELSE {}

\* C7 as stated: the master list has no duplicate, no empty or blank entry,
\* no entry with whitespace at an end or a character outside word
\* characters, apostrophe and hyphen; and every word of an enabled source
\* (WordNet lemma, nltk corpus word, line of a custom file) that is
\* well-formed is an entry of the list.
C7_Original ==
    master_pc = "done" =>
        /\ MasterIsCleanSet
        /\ \A w \in (IF include_wordnet THEN wordnet_lemmas ELSE {})
                    \cup (IF include_nltk_corpus /\ have_nltk THEN nltk_corpus ELSE {})
                    \cup ReadableLines(file_custom) \cup ReadableLines(file_large) :
               IsCleanWord(w) => w \in Range(master_words)

\* C7 amended: as stated, except that a word of the nltk corpus is looked
\* for in its lower-cased form.
C7_MasterList ==
    master_pc = "done" =>
        /\ MasterIsCleanSet
        /\ \A w \in (IF include_wordnet THEN wordnet_lemmas ELSE {})
                    \cup ReadableLines(file_custom) \cup ReadableLines(file_large) :
               IsCleanWord(w) => w \in Range(master_words)
        /\ (include_nltk_corpus /\ have_nltk) =>
               \A w \in nltk_corpus :
                   IsCleanWord(w) => Lower(w) \in Range(master_words)

\* every source is on, two sources give the same word after stripping, and
\* blank and weird tokens were offered
C7_Witness ==
    /\ master_pc = "done"
    /\ include_wordnet /\ include_nltk_corpus /\ have_nltk
    /\ <<"a", "b">> \in wordnet_lemmas /\ <<"a", ".", "b">> \in wordnet_lemmas
    /\ <<"A", "b">> \in nltk_corpus
    /\ file_custom.readable /\ file_custom.lines = CustomLines
    /\ file_large.readable /\ <<>> \in file_large.lines
    /\ Len(master_words) >= 1

(***************************************************************************)
(* PDF generator                                                           *)
(***************************************************************************)

\* canvas.Canvas: the pages shown so far and the content of the current page
NewCanvas == [pages |-> <<>>, code |-> <<>>]

\* c.showPage(): the current page ends, a fresh one starts
showPage(c) == [pages |-> Append(c.pages, c.code), code |-> <<>>]

\* c.save(): a current page with content is shown before the file is written
save(c) == IF c.code # <<>> THEN showPage(c) ELSE c

\* c.drawCentredString of the word and of its clones_per_word copies; y is
\* counted in block heights below the top margin
DrawBlock(c, word, col, row, clones) ==
    [c EXCEPT !.code = @ \o <<[text |-> word, kind |-> "main", col |-> col, row |-> row]>>
                         \o [k \in 1..clones |->
                               [text |-> word, kind |-> "clone", col |-> col, row |-> row]]]

WordsPerPage == 6

\* faulty variant: the page is full one word late
PageFullLate(count) == count > WordsPerPage

\* if count_on_page >= 6
PageFull(count) == count >= WordsPerPage

\* the body of  for idx, word in enumerate(words)  from index idx on; st holds
\* count_on_page, the row of y_start, the canvas and the idx of every
\* showPage call
RECURSIVE TracerLoop(_, _, _, _)
TracerLoop(ws, clones, idx, st) ==
    IF idx >= Len(ws) THEN st
    ELSE
        LET break == st.count_on_page = 0 /\ idx > 0
            c1    == IF break THEN showPage(st.canvas) ELSE st.canvas
            row0  == IF break THEN 0 ELSE st.row
            col   == st.count_on_page % 2
            row1  == IF col = 0 /\ st.count_on_page > 0 THEN row0 + 1 ELSE row0
            c2    == DrawBlock(c1, ws[idx + 1], col, row1, clones)
            cnt   == st.count_on_page + 1
        IN  TracerLoop(ws, clones, idx + 1,
                [count_on_page |-> IF PageFull(cnt) THEN 0 ELSE cnt,
                 row |-> row1,
                 canvas |-> c2,
                 shows |-> IF break THEN Append(st.shows, idx) ELSE st.shows])

create_tracer_pdf_buffer(ws, clones) ==
    LET end == TracerLoop(ws, clones, 0,
                   [count_on_page |-> 0, row |-> 0, canvas |-> NewCanvas, shows |-> <<>>])
    IN  [pages |-> save(end.canvas).pages, shows |-> end.shows]

MaxTracerWords == 13   \* most words entered for a sheet
MaxClones == 2         \* most copies per word chosen

TracerVocabulary == {"night", "light"}

NoPdf == [pages |-> <<>>, shows |-> <<>>]

InitPdf ==
    /\ words_for_tracer \in UNION {[1..k -> TracerVocabulary] : k \in 0..MaxTracerWords}
    /\ clones_per_word \in 1..MaxClones
    /\ pdf = NoPdf
    /\ pdf_pc = "input"

IdlePdf ==
    /\ words_for_tracer = <<>>
    /\ clones_per_word = 1
    /\ pdf = NoPdf
    /\ pdf_pc = "idle"

\* "Generate PDF" with at least one word
GeneratePdf ==
    /\ pdf_pc = "input"
    /\ words_for_tracer # <<>>
    /\ pdf' = create_tracer_pdf_buffer(words_for_tracer, clones_per_word)
    /\ pdf_pc' = "done"
    /\ UNCHANGED <<words_for_tracer, clones_per_word>>
    /\ UNCHANGED notPdf

\* "Generate PDF" with no word: st.info("Please enter at least one word.")
GenerateNothing ==
    /\ pdf_pc = "input"
    /\ words_for_tracer = <<>>
    /\ pdf_pc' = "no_words"
    /\ UNCHANGED <<words_for_tracer, clones_per_word, pdf>>
    /\ UNCHANGED notPdf

NextPdf == GeneratePdf \/ GenerateNothing

\* the words drawn on a page, in drawing order
WordsOnPage(page) ==
    LET IsMain(d) == d.kind = "main"
        mains == SelectSeq(page, IsMain)
    IN  [k \in 1..Len(mains) |-> mains[k].text]

\* C2: for n >= 1 words, showPage is called exactly before each word whose
\* index is a positive multiple of 6, the word at index i is drawn on page
\* floor(i/6), no page carries more than 6 words, and the document has
\* ceil(n/6) pages.
C2_SixPerPage ==
    pdf_pc = "done" =>
        LET n == Len(words_for_tracer)
        IN  /\ n >= 1
            /\ Range(pdf.shows) = {i \in 1..(n - 1) : i % 6 = 0}
            /\ \A j, k \in 1..Len(pdf.shows) : j < k => pdf.shows[j] < pdf.shows[k]
            /\ Len(pdf.pages) = (n + 5) \div 6
            /\ \A p \in 1..Len(pdf.pages) : Len(WordsOnPage(pdf.pages[p])) \in 1..6
            /\ \A i \in 0..(n - 1) :
                   /\ (i \div 6) + 1 <= Len(pdf.pages)
                   /\ (i % 6) + 1 <= Len(WordsOnPage(pdf.pages[(i \div 6) + 1]))
                   /\ WordsOnPage(pdf.pages[(i \div 6) + 1])[(i % 6) + 1]
                          = words_for_tracer[i + 1]

\* a sheet of exactly two full pages of differing words
C2_Witness ==
    /\ pdf_pc = "done"
    /\ Len(words_for_tracer) = 12
    /\ Len(pdf.pages) = 2
    /\ pdf.shows = <<6>>
    /\ words_for_tracer[6] # words_for_tracer[7]

(***************************************************************************)
(* Translation                                                             *)
(***************************************************************************)

\* A Python value that may be None: None is <<>>, a string v is <<v>>.
Some(v) == <<v>>

\* the strings handed to the translators
TextUniverse == {"", "-", "day", "sun"}

\* what GoogleTranslator answers for a text when it answers with text
TaOf(t) ==
    CASE t = "day" -> "ta:day"
      [] t = "sun" -> "ta:sun"
      [] t = "-"   -> "ta:-"
      [] OTHER     -> "ta:"

\* what the public endpoint answers for a text when it answers with text
FbOf(t) ==
    CASE t = "day" -> "fb:day"
      [] t = "sun" -> "fb:sun"
      [] t = "-"   -> "fb:-"
      [] OTHER     -> "fb:"

\* how one request to a translation service ends: an exception, nothing
\* ("empty": None or the empty string), a blank string, or a translation
PrimaryReplies == {"exception", "empty", "blank", "text"}
FallbackReplies == {"exception", "empty", "blank", "text"}

\* google_translate_ta(text), the request ending as `reply`
google_translate_ta(text, reply) ==
    IF text = "" THEN "-"
    ELSE IF reply = "exception" THEN "-"
    ELSE IF reply = "empty" THEN "-"
    ELSE IF reply = "blank" THEN " "
    ELSE TaOf(text)

\* google_translate_ta_fallback(text), the request ending as `reply`
google_translate_ta_fallback(text, reply) ==
    IF text = "" THEN "-"
    ELSE IF reply = "exception" THEN "-"
    ELSE IF reply = "empty" THEN "-"
    ELSE IF reply = "blank" THEN " "
    ELSE FbOf(text)

\* func = google_translate_ta_fallback if use_fallback else google_translate_ta
func(text, reply) ==
    IF use_fallback THEN google_translate_ta_fallback(text, reply)
    ELSE google_translate_ta(text, reply)

Replies == IF use_fallback THEN FallbackReplies ELSE PrimaryReplies

EmptyCache == [t \in TextUniverse |-> None]

\* a future: "pending", "requesting" (its worker waits for the service),
\* "done" or "collected"; outcome "returned" or "raised"; reply records how
\* the request ended ("cached": answered by st.cache_data, "skipped": no
\* request for an empty text)
PendingFut == [state |-> "pending", outcome |-> "none", value |-> "", reply |-> "none"]

\* faulty variant: results are stored in completion order
StoreAppend(res, i, v) ==
    LET free == {k \in 1..Len(res) : res[k] = None}
        first == CHOOSE k \in free : \A j \in free : k <= j
    IN  [res EXCEPT ![first] = Some(v)]

\* results[i] = ...
Store(res, i, v) == [res EXCEPT ![i] = Some(v)]

\* faulty variant: fut.result() outside try/except
FutResultUnguarded(f) == [ok |-> f.outcome # "raised", value |-> f.value]

\* try: fut.result()  except Exception: "-"
FutResult(f) == [ok |-> TRUE, value |-> IF f.outcome = "raised" THEN "-" ELSE f.value]

\* futs = {ex.submit(func, t): i ...}; results = [None] * len(texts)
Submit ==
    /\ tr_pc = "call"
    /\ futs' = [i \in 1..Len(texts) |-> PendingFut]
    /\ results' = [i \in 1..Len(texts) |-> None]
    /\ fut_i' = 0
    /\ tr_pc' = "running"
    /\ UNCHANGED <<texts, use_fallback, cache_primary, cache_fallback>>
    /\ UNCHANGED notTr

CurrentCache == IF use_fallback THEN cache_fallback ELSE cache_primary

\* a worker takes the task of texts[i]: an empty text and a cached text are
\* answered at once, otherwise the request goes out
WorkerStart(i) ==
    /\ tr_pc = "running"
    /\ futs[i].state = "pending"
    /\ futs' = [futs EXCEPT ![i] =
            IF CurrentCache[texts[i]] # None
            THEN [state |-> "done", outcome |-> "returned",
                  value |-> CurrentCache[texts[i]][1], reply |-> "cached"]
            ELSE IF texts[i] = ""
            THEN [state |-> "done", outcome |-> "returned",
                  value |-> func(texts[i], "empty"), reply |-> "skipped"]
            ELSE [@ EXCEPT !.state = "requesting"]]
    /\ IF CurrentCache[texts[i]] = None /\ texts[i] = ""
       THEN IF use_fallback
            THEN /\ cache_fallback' = [cache_fallback EXCEPT ![""] = Some(func("", "empty"))]
                 /\ UNCHANGED cache_primary
            ELSE /\ cache_primary' = [cache_primary EXCEPT ![""] = Some(func("", "empty"))]
                 /\ UNCHANGED cache_fallback
       ELSE UNCHANGED <<cache_primary, cache_fallback>>
    /\ UNCHANGED <<texts, use_fallback, results, fut_i, tr_pc>>
    /\ UNCHANGED notTr

\* the request of texts[i] ends; the value func returns is cached
WorkerFinish(i, reply) ==
    /\ tr_pc = "running"
    /\ futs[i].state = "requesting"
    /\ reply \in Replies
    /\ futs' = [futs EXCEPT ![i] =
            [state |-> "done", outcome |-> "returned",
             value |-> func(texts[i], reply), reply |-> reply]]
    /\ IF use_fallback
       THEN /\ cache_fallback' =
                   [cache_fallback EXCEPT ![texts[i]] = Some(func(texts[i], reply))]
            /\ UNCHANGED cache_primary
       ELSE /\ cache_primary' =
                   [cache_primary EXCEPT ![texts[i]] = Some(func(texts[i], reply))]
            /\ UNCHANGED cache_fallback
    /\ UNCHANGED <<texts, use_fallback, results, fut_i, tr_pc>>
    /\ UNCHANGED notTr

\* the call of func raises out of the worker: the future holds the exception
WorkerRaise(i) ==
    /\ tr_pc = "running"
    /\ futs[i].state = "pending"
    /\ futs' = [futs EXCEPT ![i] =
            [state |-> "done", outcome |-> "raised", value |-> "", reply |-> "raised"]]
    /\ UNCHANGED <<texts, use_fallback, results, fut_i, cache_primary, cache_fallback, tr_pc>>
    /\ UNCHANGED notTr

\* for fut in as_completed(futs): one finished future, in completion order
Collect(i) ==
    /\ tr_pc = "running"
    /\ futs[i].state = "done"
    /\ futs' = [futs EXCEPT ![i].state = "collected"]
    /\ fut_i' = i
    /\ IF FutResult(futs[i]).ok
       THEN /\ results' = Store(results, i, FutResult(futs[i]).value)
            /\ tr_pc' = tr_pc
       ELSE /\ tr_pc' = "crashed"
            /\ results' = results
    /\ UNCHANGED <<texts, use_fallback, cache_primary, cache_fallback>>
    /\ UNCHANGED notTr

\* return results
Return ==
    /\ tr_pc = "running"
    /\ \A i \in 1..Len(texts) : futs[i].state = "collected"
    /\ tr_pc' = "returned"
    /\ UNCHANGED <<texts, use_fallback, futs, results, fut_i, cache_primary, cache_fallback>>
    /\ UNCHANGED notTr

translate_list_parallel ==
    \/ Submit
    \/ \E i \in 1..Len(texts) : WorkerStart(i)
    \/ \E i \in 1..Len(texts) : \E reply \in PrimaryReplies : WorkerFinish(i, reply)
    \/ \E i \in 1..Len(texts) : WorkerRaise(i)
    \/ \E i \in 1..Len(texts) : Collect(i)
    \/ Return

MaxTexts == 3   \* longest list translated in one call

InitTranslate ==
    /\ texts \in UNION {[1..k -> {"", "day", "sun"}] : k \in 0..MaxTexts}
    /\ use_fallback \in BOOLEAN
    /\ futs = <<>>
    /\ results = <<>>
    /\ fut_i = 0
    /\ cache_primary = EmptyCache
    /\ cache_fallback = EmptyCache
    /\ tr_pc = "call"

IdleTranslate ==
    /\ texts = <<>>
    /\ use_fallback = FALSE
    /\ futs = <<>>
    /\ results = <<>>
    /\ fut_i = 0
    /\ cache_primary = EmptyCache
    /\ cache_fallback = EmptyCache
    /\ tr_pc = "idle"

NextTranslate == translate_list_parallel

\* the strings one slot of translate_list_parallel's result can hold for a
\* text: what func returns for each way its request can end, or the "-" of a
\* future that raised
SlotValues(t, fallback) ==
    {"-"} \cup (IF fallback
                THEN {google_translate_ta_fallback(t, r) : r \in FallbackReplies}
                ELSE {google_translate_ta(t, r) : r \in PrimaryReplies})

\* the lists a call translate_list_parallel(txts, use_fallback=fallback) can
\* return: slot i holds a result for txts[i] (C4_OrderPreserved)
TranslatedLists(txts, fallback) ==
    {res \in [1..Len(txts) -> {"-", " "} \cup {TaOf(t) : t \in TextUniverse}
                                         \cup {FbOf(t) : t \in TextUniverse}] :
        \A i \in 1..Len(txts) : res[i] \in SlotValues(txts[i], fallback)}

\* what the call of func for texts[i] gave back to line 114: the value func
\* returned, or "-" for a future that raised
TaskResult(i) == IF futs[i].outcome = "raised" THEN "-" ELSE futs[i].value

\* C4: whatever the order in which the futures complete, the returned list
\* is as long as texts and its element i is the result of translating
\* texts[i], also when texts repeats a string.
C4_OrderPreserved ==
    tr_pc = "returned" =>
        /\ Len(results) = Len(texts)
        /\ \A i \in 1..Len(texts) :
               /\ results[i] # None
               /\ results[i] = Some(TaskResult(i))
               /\ TaskResult(i) \in SlotValues(texts[i], use_fallback)
        /\ [i \in 1..Len(texts) |-> TaskResult(i)] \in TranslatedLists(texts, use_fallback)

\* three texts, the first and the last equal, the first one collected last,
\* the two equal texts with different results
C4_Witness ==
    /\ tr_pc = "returned"
    /\ Len(texts) = 3
    /\ texts[1] = texts[3] /\ texts[1] # texts[2]
    /\ fut_i = 1
    /\ results[1] # results[3]
    /\ results[2] \notin {results[1], results[3]}

\* C5: no failing request aborts the call or leaves a hole: the call never
\* stops before it returns, and when it returns no position is None, every
\* position whose request failed (an exception in the translator or out of
\* the future) or gave nothing holds "-", and every position whose request
\* gave a translation holds that translation.
C5_FailuresBecomePlaceholder ==
    /\ tr_pc # "crashed"
    /\ tr_pc = "running" => ENABLED translate_list_parallel
    /\ tr_pc = "returned" =>
           \A i \in 1..Len(texts) :
               /\ results[i] # None
               /\ futs[i].reply \in {"exception", "raised", "empty", "skipped"}
                      => results[i] = Some("-")
               /\ futs[i].reply = "text"
                      => results[i] = Some(IF use_fallback THEN FbOf(texts[i])
                                           ELSE TaOf(texts[i]))
               /\ futs[i].reply = "blank" => results[i] = Some(" ")

\* a returned call in which one request raised inside the translator, one
\* future raised and one request was translated
C5_Witness ==
    /\ tr_pc = "returned"
    /\ Len(texts) = 3
    /\ futs[1].reply = "exception"
    /\ futs[2].reply = "raised"
    /\ futs[3].reply = "text"
    /\ results = <<Some("-"), Some("-"), Some(TaOf(texts[3]))>>


(***************************************************************************)
(* Meanings: WordNet, the online dictionaries, aggregate_meanings          *)
(***************************************************************************)

\* the words the lookup is run for, and what the dictionaries hold for them
LookupWords == { <<"b">>, <<"a", "b">>, <<"b", "a", "b">> }

\* wordnet_info(word) when wordnet.synsets answers
wordnet_info(word) ==
    CASE word = <<"a", "b">> ->
            [definitions |-> <<"day">>, synonyms |-> {"ab", "dawn"}, pos |-> {"Noun"}]
      [] word = <<"b", "a", "b">> ->
            [definitions |-> <<"sun", "day">>, synonyms |-> {"bab"},
             pos |-> {"Noun", "Verb"}]
      [] OTHER ->
            [definitions |-> <<>>, synonyms |-> {}, pos |-> {}]

\* the dict a lookup returns when its request fails (exception or non-200)
NoInfo == [definitions |-> <<>>, synonyms |-> {}, source |-> ""]

\* the dict each lookup returns when its request succeeds
wordsapi_lookup(word) ==
    [definitions |-> <<"sun">>, synonyms |-> {"star"}, source |-> "WordsAPI"]

owlbot_lookup(word) ==
    [definitions |-> <<"day">>, synonyms |-> {}, source |-> "Owlbot"]

dictionaryapi_lookup(word) ==
    [definitions |-> <<" sun ", "  ", "day">>, synonyms |-> {"dawn"},
     source |-> "DictionaryAPI.dev"]

OnlineLookup(src, word, ok) ==
    IF ~ok THEN NoInfo
    ELSE CASE src = "WordsAPI" -> wordsapi_lookup(word)
           [] src = "Owlbot" -> owlbot_lookup(word)
           [] OTHER -> dictionaryapi_lookup(word)

\* d.strip() on a definition
StripDef(d) ==
    CASE d = " sun " -> "sun"
      [] d = "  " -> ""
      [] OTHER -> d

\* list(dict.fromkeys(l)): first occurrences, in order
RECURSIVE Unique(_)
Unique(l) ==
    IF l = <<>> THEN <<>>
    ELSE LET init == Unique(SubSeq(l, 1, Len(l) - 1))
         IN  IF l[Len(l)] \in Range(init) THEN init ELSE Append(init, l[Len(l)])

\* [d.strip() for d in agg_defs if d and d.strip()]
StripDefs(l) ==
    LET NonBlank(d) == d # "" /\ StripDef(d) # ""
        kept == SelectSeq(l, NonBlank)
    IN  [k \in 1..Len(kept) |-> StripDef(kept[k])]

\* the tasks aggregate_meanings submits
Submitted ==
    (IF use_wordsapi /\ wordsapi_key # "" /\ wordsapi_host # "" THEN {"WordsAPI"} ELSE {})
    \cup (IF use_owlbot /\ owlbot_token # "" THEN {"Owlbot"} ELSE {})
    \cup (IF use_dictapi THEN {"DictionaryAPI.dev"} ELSE {})

\* for fut in as_completed(tasks), from the state acc on; done lists the
\* tasks in completion order, each with how its request ended
RECURSIVE Gather(_, _, _)
Gather(word, done, acc) ==
    IF done = <<>> THEN acc
    ELSE LET info == OnlineLookup(Head(done).src, word, Head(done).ok)
         IN  Gather(word, Tail(done),
                 [defs |-> IF info.definitions # <<>> THEN acc.defs \o info.definitions
                           ELSE acc.defs,
                  syns |-> acc.syns \cup info.synonyms,
                  sources |-> IF info.source # "" THEN Append(acc.sources, info.source)
                              ELSE acc.sources])

\* aggregate_meanings(word, ...) when wordnet_info answers
aggregate_meanings(word, done) ==
    LET wn == wordnet_info(word)
        start == IF wn.definitions # <<>>
                 THEN [defs |-> wn.definitions, syns |-> wn.synonyms,
                       sources |-> <<"WordNet">>]
                 ELSE [defs |-> <<>>, syns |-> {}, sources |-> <<>>]
        end == Gather(word, done, start)
    IN  [definitions |-> Unique(StripDefs(end.defs)),
         synonyms |-> end.syns,
         pos |-> wn.pos,
         sources |-> end.sources]

RECURSIVE Perms(_)
Perms(S) ==
    IF S = {} THEN {<<>>}
    ELSE UNION { {<<x>> \o q : q \in Perms(S \ {x})} : x \in S }

\* every way the submitted tasks can complete: an order and, for each, ok or not
Completions ==
    UNION { {[k \in 1..Len(o) |-> [src |-> o[k], ok |-> o[k] \in good]] :
             good \in SUBSET Submitted} : o \in Perms(Submitted) }

(***************************************************************************)
(* The batch lookup over the matches and the rows                          *)
(***************************************************************************)

NoMeaning == [definitions |-> <<>>, synonyms |-> {}, pos |-> {}, sources |-> <<>>]

PendingTask == [state |-> "pending", outcome |-> "none", info |-> NoMeaning, wn_ok |-> TRUE,
                done |-> <<>>]

\* the rows of one (word, info): one row per definition, or one placeholder
\* row.  A joined cell is kept as the list it joins; the empty list stands
\* for the "-" (or "—") the code writes.
RowsOf(word, info) ==
    IF info.definitions = <<>>
    THEN << [Word |-> word, POS |-> info.pos, English |-> "-", Tamil |-> "-",
             Synonyms |-> info.synonyms, Sources |-> info.sources] >>
    ELSE [k \in 1..Len(info.definitions) |->
             [Word |-> word, POS |-> info.pos, English |-> info.definitions[k],
              Tamil |-> "", Synonyms |-> info.synonyms, Sources |-> info.sources]]

\* for word, info in results: rows.append(...)
RECURSIVE BuildRows(_)
BuildRows(res) ==
    IF res = <<>> THEN <<>>
    ELSE BuildRows(SubSeq(res, 1, Len(res) - 1))
         \o RowsOf(res[Len(res)].word, res[Len(res)].info)

\* a worker runs task(matches[k]): wordnet_info raises, or aggregate_meanings
\* returns after its own tasks completed in some order
LookupTask(k) ==
    /\ lookup_pc = "lookup"
    /\ lookup_futs[k].state = "pending"
    /\ \/ lookup_futs' = [lookup_futs EXCEPT ![k] =
              [state |-> "done", outcome |-> "raised", info |-> NoMeaning,
               wn_ok |-> FALSE, done |-> <<>>]]
       \/ \E done \in Completions :
              lookup_futs' = [lookup_futs EXCEPT ![k] =
                  [state |-> "done", outcome |-> "returned",
                   info |-> aggregate_meanings(matches[k], done),
                   wn_ok |-> TRUE, done |-> done]]
    /\ UNCHANGED <<use_wordsapi, use_owlbot, use_dictapi, wordsapi_key, wordsapi_host,
                   owlbot_token, lookup_results, rows, lookup_pc>>
    /\ UNCHANGED notLookup

\* results.append(fut.result())
AddResult(res, k, r) == Append(res, r)

\* for fut in as_completed(futs): results.append(fut.result()); a future that
\* raised raises here and ends the run
LookupCollect(k) ==
    /\ lookup_pc = "lookup"
    /\ lookup_futs[k].state = "done"
    /\ lookup_futs' = [lookup_futs EXCEPT ![k].state = "collected"]
    /\ IF lookup_futs[k].outcome = "raised"
       THEN /\ lookup_pc' = "crashed"
            /\ lookup_results' = lookup_results
       ELSE /\ lookup_pc' = lookup_pc
            /\ lookup_results' = AddResult(lookup_results, k,
                   [word |-> matches[k], info |-> lookup_futs[k].info])
    /\ UNCHANGED <<use_wordsapi, use_owlbot, use_dictapi, wordsapi_key, wordsapi_host,
                   owlbot_token, rows>>
    /\ UNCHANGED notLookup

\* Build rows, once every future is collected
BuildTable ==
    /\ lookup_pc = "lookup"
    /\ matches # <<>>
    /\ \A k \in 1..Len(matches) : lookup_futs[k].state = "collected"
    /\ rows' = BuildRows(lookup_results)
    /\ lookup_pc' = "done"
    /\ UNCHANGED <<use_wordsapi, use_owlbot, use_dictapi, wordsapi_key, wordsapi_host,
                   owlbot_token, lookup_futs, lookup_results>>
    /\ UNCHANGED notLookup

\* no matches: st.info("No results. ...")
NoResults ==
    /\ lookup_pc = "lookup"
    /\ matches = <<>>
    /\ lookup_pc' = "no_results"
    /\ UNCHANGED <<use_wordsapi, use_owlbot, use_dictapi, wordsapi_key, wordsapi_host,
                   owlbot_token, lookup_futs, lookup_results, rows>>
    /\ UNCHANGED notLookup

NextLookup ==
    \/ \E k \in 1..Len(matches) : LookupTask(k)
    \/ \E k \in 1..Len(matches) : LookupCollect(k)
    \/ BuildTable
    \/ NoResults

MaxMatches == 2    \* most matches looked up

\* the search has run and returned an ordered list of distinct words
InitLookup ==
    /\ words = <<>>
    /\ suffix = <<"b">>
    /\ before_mode = "any"
    /\ before_n = 0
    /\ max_results = 0
    /\ matches \in {l \in UNION {[1..k -> LookupWords] : k \in 0..MaxMatches} :
                       IsMasterList(l)}
    /\ search_pc = "done"
    /\ use_wordsapi \in BOOLEAN
    /\ use_owlbot \in BOOLEAN
    /\ use_dictapi \in BOOLEAN
    /\ wordsapi_key \in {"", "key"}
    /\ wordsapi_host \in {"", "host"}
    /\ owlbot_token \in {"", "token"}
    /\ lookup_futs = [k \in 1..Len(matches) |-> PendingTask]
    /\ lookup_results = <<>>
    /\ rows = <<>>
    /\ lookup_pc = "lookup"

IdleLookup ==
    /\ use_wordsapi = FALSE
    /\ use_owlbot = FALSE
    /\ use_dictapi = FALSE
    /\ wordsapi_key = ""
    /\ wordsapi_host = ""
    /\ owlbot_token = ""
    /\ lookup_futs = <<>>
    /\ lookup_results = <<>>
    /\ rows = <<>>
    /\ lookup_pc = "idle"

\* the position of a word in matches
IndexIn(l, w) == CHOOSE k \in 1..Len(l) : l[k] = w

\* the data of the lookups of a finished task that succeeded is in its info
SucceededDataKept(f, word) ==
    /\ \A d \in Range(wordnet_info(word).definitions) : d \in Range(f.info.definitions)
    /\ wordnet_info(word).synonyms \subseteq f.info.synonyms
    /\ \A k \in 1..Len(f.done) :
           f.done[k].ok =>
               LET got == OnlineLookup(f.done[k].src, word, TRUE)
               IN  /\ \A d \in Range(got.definitions) :
                          StripDef(d) # "" => StripDef(d) \in Range(f.info.definitions)
                   /\ got.synonyms \subseteq f.info.synonyms
                   /\ got.source \in Range(f.info.sources)

\* C6 as stated: whichever lookup fails (WordNet included), aggregate_meanings
\* returns normally with the definitions, synonyms and source names of the
\* lookups that succeeded, the run goes on, and the batch has a result for
\* every matched word.
C6_Original ==
    /\ lookup_pc # "crashed"
    /\ \A k \in 1..Len(lookup_futs) :
           lookup_futs[k].state \in {"done", "collected"} =>
               /\ lookup_futs[k].outcome = "returned"
               /\ SucceededDataKept(lookup_futs[k], matches[k])
    /\ lookup_pc = "done" =>
           \A k \in 1..Len(matches) :
               \E j \in 1..Len(lookup_results) : lookup_results[j].word = matches[k]

\* C6, the part the code keeps: while wordnet_info answers, a failing online
\* lookup contributes nothing, the data of the others is kept, and every
\* matched word has a result.
C6_OnlineFailuresContained ==
    /\ \A k \in 1..Len(lookup_futs) :
           (lookup_futs[k].state \in {"done", "collected"} /\ lookup_futs[k].wn_ok) =>
               /\ lookup_futs[k].outcome = "returned"
               /\ SucceededDataKept(lookup_futs[k], matches[k])
    /\ lookup_pc = "done" =>
           \A k \in 1..Len(matches) :
               \E j \in 1..Len(lookup_results) : lookup_results[j].word = matches[k]

RowWords == [j \in 1..Len(rows) |-> rows[j].Word]

\* every matched word has a row and the rows of one word are contiguous
RowsCoverMatches ==
    /\ \A k \in 1..Len(matches) : matches[k] \in Range(RowWords)
    /\ \A i, j \in 1..Len(rows) :
           (i < j /\ RowWords[i] = RowWords[j]) =>
               \A m \in i..j : RowWords[m] = RowWords[i]

\* C9 as stated: whatever the order in which the lookups complete, the words
\* of the table are in the relative order of the matches list, every matched
\* word has a row, and the rows of one word are contiguous.
C9_Original ==
    lookup_pc = "done" =>
        /\ RowsCoverMatches
        /\ \A i, j \in 1..Len(rows) :
               i < j => IndexIn(matches, RowWords[i]) <= IndexIn(matches, RowWords[j])

\* C9, the part the code keeps: every matched word has a row and the rows of
\* one word are contiguous (their order is the order of completion).
C9_RowsCoverMatches == lookup_pc = "done" => RowsCoverMatches

(***************************************************************************)
(* The meanings table: translation with fallback, display, downloads       *)
(***************************************************************************)

\* not t.strip()
IsBlank(t) == t \in {"", " "}

\* [i for i, t in enumerate(ta) if t == "-" or not t.strip()], 1-based
RECURSIVE NeedIdx(_, _)
NeedIdx(ta, i) ==
    IF i > Len(ta) THEN <<>>
    ELSE (IF ta[i] = "-" \/ IsBlank(ta[i]) THEN <<i>> ELSE <<>>) \o NeedIdx(ta, i + 1)

\* faulty variant: the fallback result j is written to slot j
MergeFallbackAtJ(ta, need, fbres) ==
    [i \in 1..Len(ta) |->
        IF i <= Len(need) THEN (IF fbres[i] = "" THEN "-" ELSE fbres[i]) ELSE ta[i]]

\* for j, i in enumerate(need_idx): ta[i] = fb[j] or "-"
MergeFallback(ta, need, fbres) ==
    [i \in 1..Len(ta) |->
        IF \E j \in 1..Len(need) : need[j] = i
        THEN LET j == CHOOSE j \in 1..Len(need) : need[j] = i
             IN  IF fbres[j] = "" THEN "-" ELSE fbres[j]
        ELSE ta[i]]

\* df["Tamil Definition"] = [t if t and t.strip() else "-" for t in ta]
SetTamil(d, ta) ==
    [i \in 1..Len(d) |-> [d[i] EXCEPT !.Tamil = IF IsBlank(ta[i]) THEN "-" ELSE ta[i]]]

\* Clean up empties: "" becomes "-" in the definition columns (a Synonyms
\* cell is never the empty string here)
CleanUp(d) ==
    [i \in 1..Len(d) |->
        [d[i] EXCEPT !.English = IF @ = "" THEN "-" ELSE @,
                     !.Tamil = IF @ = "" THEN "-" ELSE @]]

\* faulty variant: the table is displayed before the clean-up
ShownFrameRaw(d) == d

\* the frame st.dataframe gets: df after the clean-up
ShownFrame(d) == CleanUp(d)

ColumnNames ==
    <<"Word", "POS", "English Definition", "Tamil Definition", "Synonyms (unique)",
      "Sources">>

Cell(r, c) ==
    CASE c = "Word" -> r.Word
      [] c = "POS" -> r.POS
      [] c = "English Definition" -> r.English
      [] c = "Tamil Definition" -> r.Tamil
      [] c = "Synonyms (unique)" -> r.Synonyms
      [] OTHER -> r.Sources

\* df.to_excel(writer, index=False): the header row, then one row of cells
\* per row of the frame
to_excel(d) ==
    <<ColumnNames>> \o
    [i \in 1..Len(d) |-> [c \in 1..Len(ColumnNames) |-> Cell(d[i], ColumnNames[c])]]

\* df.to_dict(orient="records"): one dict per row, keyed by column name
to_dict_records(d) ==
    [i \in 1..Len(d) |-> [c \in Range(ColumnNames) |-> Cell(d[i], c)]]

\* the translation block of lines 502-513
TranslateTable ==
    /\ table_pc = "translate"
    /\ IF do_translate /\ df # <<>>
       THEN /\ english_defs' = [i \in 1..Len(df) |-> df[i].English]
            /\ ta_primary' \in TranslatedLists(english_defs', FALSE)
            /\ IF use_public_fallback /\ NeedIdx(ta_primary', 1) # <<>>
               THEN /\ need_idx' = NeedIdx(ta_primary', 1)
                    /\ fallback_texts' =
                           [j \in 1..Len(need_idx') |-> english_defs'[need_idx'[j]]]
                    /\ fb' \in TranslatedLists(fallback_texts', TRUE)
                    /\ df' = SetTamil(df, MergeFallback(ta_primary', need_idx', fb'))
               ELSE /\ need_idx' = <<>>
                    /\ fallback_texts' = <<>>
                    /\ fb' = <<>>
                    /\ df' = SetTamil(df, ta_primary')
       ELSE UNCHANGED <<df, english_defs, ta_primary, need_idx, fallback_texts, fb>>
    /\ table_pc' = "show"
    /\ UNCHANGED <<do_translate, use_public_fallback, shown, excel, json_records>>
    /\ UNCHANGED notTable

\* Clean up empties; st.dataframe(df)
ShowTable ==
    /\ table_pc = "show"
    /\ df' = CleanUp(df)
    /\ shown' = ShownFrame(df)
    /\ table_pc' = "export"
    /\ UNCHANGED <<do_translate, use_public_fallback, english_defs, ta_primary, need_idx,
                   fallback_texts, fb, excel, json_records>>
    /\ UNCHANGED notTable

\* Downloads: the Excel sheet and the JSON records are built from df
BuildDownloads ==
    /\ table_pc = "export"
    /\ excel' = to_excel(df)
    /\ json_records' = to_dict_records(df)
    /\ table_pc' = "done"
    /\ UNCHANGED <<df, do_translate, use_public_fallback, english_defs, ta_primary,
                   need_idx, fallback_texts, fb, shown>>
    /\ UNCHANGED notTable

NextTable == TranslateTable \/ ShowTable \/ BuildDownloads

MaxRows == 3      \* most rows in the table

\* the lookup has run for a list of matches and the rows are built
InitTable ==
    /\ words = <<>>
    /\ suffix = <<"b">>
    /\ before_mode = "any"
    /\ before_n = 0
    /\ max_results = 0
    /\ matches \in {l \in UNION {[1..k -> LookupWords] : k \in 1..MaxMatches} :
                       IsMasterList(l)}
    /\ search_pc = "done"
    /\ use_wordsapi = FALSE
    /\ use_owlbot = FALSE
    /\ use_dictapi \in BOOLEAN
    /\ wordsapi_key = ""
    /\ wordsapi_host = ""
    /\ owlbot_token = ""
    /\ \E o \in Perms(1..Len(matches)) : \E c \in [1..Len(matches) -> Completions] :
           /\ lookup_futs = [k \in 1..Len(matches) |->
                  [state |-> "collected", outcome |-> "returned",
                   info |-> aggregate_meanings(matches[k], c[k]),
                   wn_ok |-> TRUE, done |-> c[k]]]
           /\ lookup_results = [j \in 1..Len(matches) |->
                  [word |-> matches[o[j]],
                   info |-> aggregate_meanings(matches[o[j]], c[o[j]])]]
    /\ rows = BuildRows(lookup_results)
    /\ Len(rows) <= MaxRows
    /\ lookup_pc = "done"
    /\ df = rows
    /\ do_translate \in BOOLEAN
    /\ use_public_fallback \in BOOLEAN
    /\ english_defs = <<>>
    /\ ta_primary = <<>>
    /\ need_idx = <<>>
    /\ fallback_texts = <<>>
    /\ fb = <<>>
    /\ shown = <<>>
    /\ excel = <<>>
    /\ json_records = <<>>
    /\ table_pc = "translate"

IdleTable ==
    /\ df = <<>>
    /\ do_translate = FALSE
    /\ use_public_fallback = FALSE
    /\ english_defs = <<>>
    /\ ta_primary = <<>>
    /\ need_idx = <<>>
    /\ fallback_texts = <<>>
    /\ fb = <<>>
    /\ shown = <<>>
    /\ excel = <<>>
    /\ json_records = <<>>
    /\ table_pc = "idle"

\* the rows of a sheet, read back under its header
SheetRows(sheet) == SubSeq(sheet, 2, Len(sheet))

\* C3: the rows of the Excel sheet and of the JSON export are the rows of
\* the table displayed, in the same order and with the same cell values,
\* with or without translation and fallback; nothing changes the table
\* between its display and the downloads.
C3_ExportEqualsShown ==
    table_pc = "done" =>
        /\ df = shown
        /\ excel[1] = ColumnNames
        /\ Len(SheetRows(excel)) = Len(shown)
        /\ Len(json_records) = Len(shown)
        /\ \A i \in 1..Len(shown) :
               /\ \A c \in 1..Len(ColumnNames) :
                      SheetRows(excel)[i][c] = Cell(shown[i], ColumnNames[c])
               /\ DOMAIN json_records[i] = Range(ColumnNames)
               /\ \A c \in Range(ColumnNames) : json_records[i][c] = Cell(shown[i], c)
               /\ shown[i].English # "" /\ shown[i].Tamil # ""

\* downloads built for a table of a placeholder row and two untranslated
\* definition rows, whose empty Tamil cells the clean-up filled
C3_Witness ==
    /\ table_pc = "done"
    /\ ~do_translate
    /\ Len(shown) = 3
    /\ Len(excel) = 4
    /\ \E i \in 1..Len(rows) : rows[i].Tamil = "" /\ shown[i].Tamil = "-"
    /\ \E i \in 1..Len(rows) : rows[i].English = "-"

Translated == table_pc \in {"show", "export", "done"} /\ do_translate

\* C10: with translation and the fallback both on, the fallback is called
\* for exactly the rows whose primary translation is "-" or blank, result j
\* of the fallback goes to the row it was requested for, a row with a usable
\* primary translation keeps it, and every Tamil Definition is afterwards a
\* non-blank string.
C10_SelectiveFallback ==
    (Translated /\ use_public_fallback) =>
        /\ Len(ta_primary) = Len(df)
        /\ Len(fb) = Len(need_idx) /\ Len(fallback_texts) = Len(need_idx)
        /\ \A j, k \in 1..Len(need_idx) : j < k => need_idx[j] < need_idx[k]
        /\ Range(need_idx) =
               {i \in 1..Len(df) : ta_primary[i] = "-" \/ ta_primary[i] \in {"", " "}}
        /\ \A j \in 1..Len(need_idx) :
               /\ fallback_texts[j] = df[need_idx[j]].English
               /\ fb[j] \in SlotValues(df[need_idx[j]].English, TRUE)
               /\ df[need_idx[j]].Tamil = (IF fb[j] \in {"", " "} THEN "-" ELSE fb[j])
        /\ \A i \in 1..Len(df) :
               /\ i \notin Range(need_idx) => df[i].Tamil = ta_primary[i]
               /\ df[i].Tamil \notin {"", " "}

\* three rows: one kept its primary translation, one got the fallback's
\* translation, one got "-" because the fallback answered blank
C10_Witness ==
    /\ Translated /\ use_public_fallback
    /\ Len(df) = 3
    /\ need_idx = <<2, 3>>
    /\ df[1].Tamil = TaOf(df[1].English)
    /\ df[2].Tamil = FbOf(df[2].English)
    /\ fb[2] = " " /\ df[3].Tamil = "-"
    /\ df[1].English # df[2].English

\* the matched words for which no source returned a definition
Undefined == {k \in 1..Len(matches) : lookup_futs[k].info.definitions = <<>>}

\* the rows of frame d that belong to the k-th match
RowsFor(d, k) == {i \in 1..Len(d) : d[i].Word = matches[k]}

\* the k-th match has exactly one row in d, with "-" as English Definition
OnePlaceholderRow(d, k) ==
    /\ Cardinality(RowsFor(d, k)) = 1
    /\ \A i \in RowsFor(d, k) : d[i].English = "-"

\* C11: a matched word for which no source returned a definition has exactly
\* one row, with English Definition "-" and Tamil Definition "-", when the
\* rows are built and still in the table displayed and exported after the
\* translation step, whatever the translators answer.
C11_Original ==
    \A k \in Undefined :
        /\ table_pc # "idle" =>
               /\ OnePlaceholderRow(df, k)
               /\ \A i \in RowsFor(df, k) : df[i].Tamil = "-"
        /\ table_pc \in {"export", "done"} =>
               /\ OnePlaceholderRow(shown, k)
               /\ \A i \in RowsFor(shown, k) : shown[i].Tamil = "-"

\* C11, the part the code keeps: the word has exactly one row with English
\* Definition "-" at every stage; its Tamil Definition is "-" when the rows
\* are built and when translation is off, and with translation on it is what
\* the translators made of the text "-".
C11_PlaceholderRowKept ==
    \A k \in Undefined :
        /\ table_pc # "idle" =>
               /\ OnePlaceholderRow(df, k)
               /\ \A i \in RowsFor(df, k) :
                      /\ (table_pc = "translate" \/ ~do_translate) => df[i].Tamil = "-"
                      /\ df[i].Tamil \in
                             SlotValues("-", FALSE) \cup SlotValues("-", TRUE)
                      /\ df[i].Tamil \notin {"", " "}
        /\ table_pc \in {"export", "done"} =>
               /\ OnePlaceholderRow(shown, k)
               /\ \A i \in RowsFor(shown, k) : shown[i].Tamil = df[i].Tamil

(***************************************************************************)
(* Specifications                                                          *)
(***************************************************************************)

InitSpecSearch == IdleTable /\ IdleLookup /\ InitSearch /\ IdleMaster /\ IdlePdf /\ IdleTranslate
SpecSearch == InitSpecSearch /\ [][NextSearch]_vars

InitSpecMaster == IdleTable /\ IdleLookup /\ InitMaster /\ IdleSearch /\ IdlePdf /\ IdleTranslate
SpecMaster == InitSpecMaster /\ [][NextMaster]_vars

InitSpecPdf == IdleTable /\ IdleLookup /\ InitPdf /\ IdleSearch /\ IdleMaster /\ IdleTranslate
SpecPdf == InitSpecPdf /\ [][NextPdf]_vars
InitSpecTranslate == IdleTable /\ IdleLookup /\ InitTranslate /\ IdleSearch /\ IdleMaster /\ IdlePdf
SpecTranslate == InitSpecTranslate /\ [][NextTranslate]_vars
InitSpecLookup == IdleTable /\ InitLookup /\ IdleMaster /\ IdlePdf /\ IdleTranslate
SpecLookup == InitSpecLookup /\ [][NextLookup]_vars
InitSpecTable == InitTable /\ IdleMaster /\ IdlePdf /\ IdleTranslate
SpecTable == InitSpecTable /\ [][NextTable]_vars

====
